---- MODULE Spec2Model ----
(***************************************************************************)
(* Model of generate_qr_codes.py: generate_qr_codes_from_csv reads a CSV   *)
(* file with pandas, checks the 'Name' and 'SRN' columns, and for every    *)
(* row encodes str(row['SRN']).strip() as a QR image saved under           *)
(* qr_codes/<srn>.png, printing one progress line per row.                 *)
(*                                                                         *)
(* Text is modelled as a sequence of one-character strings, so that        *)
(* str(), strip() and the f-string for the file name are computed.         *)
(***************************************************************************)
EXTENDS Integers, Sequences, FiniteSets, TLC

\* ---------------------------------------------------------------- bounds

\* Most data rows of an input file.
MaxRows == 3
\* Calls of generate_qr_codes_from_csv in succession on the same input.
MaxRuns == 2
\* Characters the largest QR symbol holds, scaled down to the lengths of the
\* modelled texts (qr.make(fit=True) raises DataOverflowError beyond it).
MaxPayload == 4

\* ---------------------------------------------------------------- state

VARIABLES
    pc,        \* where the call is: idle, mkdir, read, check, loop, encode,
               \* save, print, except, returned, escaped
    run,       \* calls started so far
    file,      \* what csv_file_path names
    dirState,  \* the path qr_codes: absent, dir, file
    disk,      \* the files in qr_codes: records [name, content]
    start,     \* the path qr_codes when the current call started: [state, files]
    snap,      \* the files in qr_codes when the first call ended
    out,       \* the lines the current call printed
    df,        \* the DataFrame
    idx,       \* the row the for loop is at
    srn,       \* the loop body's srn
    img,       \* the loop body's img
    exc,       \* the exception raised, "none" when none
    calls      \* the library calls of the current call, in order

vars == <<pc, run, file, dirState, disk, start, snap, out, df, idx, srn, img,
          exc, calls>>

\* ------------------------------------------------------------------ text

Whitespace == {" "}
Digits == {"0", "1", "2", "3", "4", "5", "6", "7", "8", "9"}

RECURSIVE LStrip(_)
LStrip(s) ==
    IF s # <<>> /\ Head(s) \in Whitespace THEN LStrip(Tail(s)) ELSE s

RECURSIVE RStrip(_)
RStrip(s) ==
    IF s # <<>> /\ s[Len(s)] \in Whitespace
    THEN RStrip(SubSeq(s, 1, Len(s) - 1))
    ELSE s

\* str.strip() with no argument: leading and trailing whitespace removed.
Strip(s) == RStrip(LStrip(s))

\* ------------------------------------------------------- the input file

Columns == {"Name", "SRN", "Status"}

\* Raw field texts of the SRN column: plain, padded with blanks, digits with
\* a leading zero, empty, holding a path separator, longer than MaxPayload.
SrnCells ==
    { <<"A", "1">>,
      <<" ", "A", "1", " ">>,
      <<"0", "7">>,
      <<>>,
      <<"A", "/", "1">>,
      <<"A", "1", "B", "2", "C">> }

NameCells == { <<"B", "o", " ">> }
StatusCells == { <<"P", "a", "i", "d">> }

CellsOf(c) ==
    CASE c = "SRN" -> SrnCells
      [] c = "Name" -> NameCells
      [] OTHER -> StatusCells

AllCells == SrnCells \cup NameCells \cup StatusCells

\* The rows of a file with header h: one field text per column.
RowsOf(h) == { r \in [h -> AllCells] : \A c \in h : r[c] \in CellsOf(c) }

RowSeqs(h) ==
    UNION { [1..n -> RowsOf(h)] : n \in 0..MaxRows }

\* What csv_file_path can name: nothing, a file of zero bytes, a file whose
\* rows do not tokenize, or a header row followed by data rows.
InputFiles ==
    { [kind |-> k, header |-> {}, rows |-> <<>>] :
        k \in {"missing", "zero_bytes", "malformed"} }
    \cup UNION { { [kind |-> "csv", header |-> h, rows |-> rs] : rs \in RowSeqs(h) } :
                 h \in (SUBSET Columns) \ {{}} }

\* ------------------------------------------------------- pandas.read_csv

\* Field texts read_csv turns into NaN (the empty field among them).
NaValues == { <<>>, <<"N", "A">>, <<"n", "a", "n">> }

IsIntText(cell) == cell # <<>> /\ \A i \in 1..Len(cell) : cell[i] \in Digits

RECURSIVE DropZeros(_)
DropZeros(s) ==
    IF Len(s) > 1 /\ Head(s) = "0" THEN DropZeros(Tail(s)) ELSE s

\* str(int(cell)): the digits without their leading zeros.
IntRepr(cell) == DropZeros(cell)

NanRepr == <<"n", "a", "n">>

\* The dtype read_csv infers for a column from all of its fields: int64 when
\* every field is an integer, float64 when the fields that are not NaN are
\* integers (NaN has no int64 form), object otherwise.
ColumnDtype(cells) ==
    IF cells = {} THEN "object"
    ELSE IF \A c \in cells : IsIntText(c) THEN "int64"
    ELSE IF \A c \in cells : c \in NaValues \/ IsIntText(c) THEN "float64"
    ELSE "object"

\* The value of one field in a column of dtype d, as the text str() gives.
ParseCell(d, cell) ==
    CASE d = "int64" -> IntRepr(cell)
      [] d = "float64" ->
            IF cell \in NaValues THEN NanRepr ELSE IntRepr(cell) \o <<".", "0">>
      [] OTHER -> IF cell \in NaValues THEN NanRepr ELSE cell

ColumnCells(f, c) == { f.rows[i][c] : i \in 1..Len(f.rows) }

\* The DataFrame of a header-and-rows file: the header's columns, and per row
\* the parsed value of each field.
ReadCsvFrame(f) ==
    [ columns |-> f.header,
      rows |-> [ i \in 1..Len(f.rows) |->
                   [ c \in f.header |->
                       ParseCell(ColumnDtype(ColumnCells(f, c)), f.rows[i][c]) ] ] ]

NoFrame == [columns |-> {}, rows |-> <<>>]

\* As ReadCsvError, raising EmptyDataError for a header without data rows too.
ReadCsvErrorOnNoRows(f) ==
    CASE f.kind = "missing" -> "FileNotFoundError"
      [] f.kind = "zero_bytes" \/ (f.kind = "csv" /\ f.rows = <<>>) -> "EmptyDataError"
      [] f.kind = "malformed" -> "ParserError"
      [] OTHER -> "none"

\* The exception pd.read_csv raises for the file, "none" when it returns.
ReadCsvError(f) ==
    CASE f.kind = "missing" -> "FileNotFoundError"
      [] f.kind = "zero_bytes" -> "EmptyDataError"
      [] f.kind = "malformed" -> "ParserError"
      [] OTHER -> "none"

\* ------------------------------------------------------ qrcode and disk

\* qr.add_data(srn); qr.make(fit=True): the data fit some symbol or not.
EncodeFails(s) == Len(s) > MaxPayload

\* As QrEncode, with the image depending on the call that made it.
QrEncodeStamped(s) ==
    [ data |-> s, error_correction |-> "L", box_size |-> 10 + run, border |-> 4,
      fill_color |-> "black", back_color |-> "white" ]

\* The image: a function of the payload and the fixed parameters alone.
QrEncode(s) ==
    [ data |-> s, error_correction |-> "L", box_size |-> 10, border |-> 4,
      fill_color |-> "black", back_color |-> "white" ]

Ext == <<".", "p", "n", "g">>

\* filename = f"{srn}.png"
FileName(s) == s \o Ext

\* The directory part of qr_codes / filename exists only for a plain name.
HasSeparator(n) == \E i \in 1..Len(n) : n[i] = "/"

\* img.save(filepath) raises (FileNotFoundError) when the path names a file
\* in a directory that does not exist; an existing file is overwritten.
SaveFails(n) == HasSeparator(n)

\* As SaveFile, keeping a file that already exists under the name.
SaveFileKeepFirst(d, n, c) ==
    IF \E e \in d : e.name = n THEN d ELSE d \cup { [name |-> n, content |-> c] }

\* The directory's files after img.save wrote content c under name n.
SaveFile(d, n, c) ==
    { e \in d : e.name # n } \cup { [name |-> n, content |-> c] }

\* ------------------------------------------------------ the first call

NoImage == QrEncode(<<>>)

\* A file an earlier, different run left behind under a name this input uses.
StaleFile == [name |-> FileName(<<"A", "1">>), content |-> QrEncode(<<"o", "l", "d">>)]

\* The path qr_codes before the first call: absent, an empty directory, a
\* directory holding an older file, or a regular file of that name.
InitialDirs ==
    { [state |-> "absent", files |-> {}],
      [state |-> "dir", files |-> {}],
      [state |-> "dir", files |-> {StaleFile}],
      [state |-> "file", files |-> {}] }

Init ==
    /\ pc = "idle"
    /\ run = 0
    /\ file \in InputFiles
    /\ \E d \in InitialDirs : dirState = d.state /\ disk = d.files
    /\ start = [state |-> dirState, files |-> disk]
    /\ snap = {}
    /\ out = <<>>
    /\ df = NoFrame
    /\ idx = 0
    /\ srn = <<>>
    /\ img = NoImage
    /\ exc = "none"
    /\ calls = <<>>

\* ---------------------------------------------------------------- lines

CountLine(n) == [kind |-> "count", arg |-> <<n>>]
ProgressLine(name, s, status, path) ==
    [kind |-> "progress", arg |-> <<name, s, status, path>>]
BannerLine == [kind |-> "banner", arg |-> <<>>]
NotFoundLine == [kind |-> "error", arg |-> <<"CSV file not found">>]
EmptyLine == [kind |-> "error", arg |-> <<"The CSV file is empty">>]
MessageLine(e) == [kind |-> "error", arg |-> <<e>>]

\* -------------------------------------------------------------- actions

\* The caller invokes generate_qr_codes_from_csv(csv_file_path).
Call ==
    /\ pc \in {"idle", "returned", "escaped"}
    /\ run < MaxRuns
    /\ pc' = "mkdir"
    /\ run' = run + 1
    /\ start' = [state |-> dirState, files |-> disk]
    /\ out' = <<>>
    /\ df' = NoFrame
    /\ idx' = 0
    /\ srn' = <<>>
    /\ img' = NoImage
    /\ exc' = "none"
    /\ calls' = <<>>
    /\ UNCHANGED <<file, dirState, disk, snap>>

\* As MkdirResult, creating nothing.
MkdirResultNoCreate(d) == d

\* Path.mkdir(exist_ok=True): the state of the path afterwards.
MkdirResult(d) == IF d = "absent" THEN "dir" ELSE d

\* Path.mkdir(exist_ok=True) raises FileExistsError when the path is not a
\* directory.
MkdirFails(d) == d = "file"

\* Where control goes when qr_codes_dir.mkdir raises: line 16 is outside the
\* try of line 18, so the exception leaves the function.
OnMkdirError == "escaped"

\* Where control goes when a statement inside the try raises.
OnTryError == "except"

\* The end of a call: the first call's end is recorded for comparison.
EndCall == snap' = IF run = 1 THEN disk' ELSE snap

Mkdir ==
    /\ pc = "mkdir"
    /\ calls' = Append(calls, <<"mkdir">>)
    /\ IF MkdirFails(dirState)
       THEN /\ exc' = "FileExistsError"
            /\ pc' = OnMkdirError
            /\ UNCHANGED dirState
       ELSE /\ dirState' = MkdirResult(dirState)
            /\ pc' = "read"
            /\ UNCHANGED exc
    /\ UNCHANGED <<run, file, disk, start, out, df, idx, srn, img>>
    /\ IF pc' = "escaped" THEN EndCall ELSE UNCHANGED snap

\* df = pd.read_csv(csv_file_path)
ReadCsv ==
    /\ pc = "read"
    /\ calls' = Append(calls, <<"read_csv">>)
    /\ IF ReadCsvError(file) # "none"
       THEN /\ exc' = ReadCsvError(file)
            /\ pc' = OnTryError
            /\ UNCHANGED df
       ELSE /\ df' = ReadCsvFrame(file)
            /\ pc' = "check"
            /\ UNCHANGED exc
    /\ UNCHANGED <<run, file, dirState, disk, start, snap, out, idx, srn, img>>

\* As MissingColumns, with "and" for "or".
MissingColumnsBoth(cols) == "Name" \notin cols /\ "SRN" \notin cols

\* if 'Name' not in df.columns or 'SRN' not in df.columns
MissingColumns(cols) == "Name" \notin cols \/ "SRN" \notin cols

\* The column check and the record-count line.
CheckColumns ==
    /\ pc = "check"
    /\ IF MissingColumns(df.columns)
       THEN /\ exc' = "ValueError"
            /\ pc' = OnTryError
            /\ UNCHANGED out
       ELSE /\ out' = Append(out, CountLine(Len(df.rows)))
            /\ pc' = "loop"
            /\ UNCHANGED exc
    /\ UNCHANGED <<run, file, dirState, disk, start, snap, df, idx, srn, img, calls>>

\* As StepAfter, with the progress line printed before the image is saved.
StepAfterPrintFirst(p) ==
    CASE p = "encode" -> "print"
      [] p = "print" -> "save"
      [] OTHER -> "loop"

\* The statements of the loop body, in order: qr.make, img.save, print, and
\* back to the for statement.
StepAfter(p) ==
    CASE p = "encode" -> "save"
      [] p = "save" -> "print"
      [] OTHER -> "loop"

\* As OnLoopError, with the failed record skipped and the loop going on.
OnLoopErrorContinue == "loop"

\* Where control goes when a statement of the loop body raises: the body has
\* no handler of its own, so to the handlers of the enclosing try.
OnLoopError == OnTryError

\* As SrnOf, with the call of strip() left out.
SrnOfUnstripped(row) == row["SRN"]

\* srn = str(row['SRN']).strip()
SrnOf(row) == Strip(row["SRN"])

\* name = str(row['Name']).strip()
NameOf(row) == Strip(row["Name"])

Unknown == <<"U", "n", "k", "n", "o", "w", "n">>

\* status = row.get('Status', 'Unknown') if 'Status' in df.columns else 'Unknown'
StatusOf(cols, row) == IF "Status" \in cols THEN row["Status"] ELSE Unknown

\* filepath = qr_codes_dir / filename
FilePath(n) == <<"qr_codes", n>>

\* for index, row in df.iterrows(): the next row, and its srn.
NextRecord ==
    /\ pc = "loop"
    /\ idx < Len(df.rows)
    /\ idx' = idx + 1
    /\ srn' = SrnOf(df.rows[idx + 1])
    /\ pc' = "encode"
    /\ UNCHANGED <<run, file, dirState, disk, start, snap, out, df, img, exc, calls>>

\* qr.add_data(srn); qr.make(fit=True); img = qr.make_image(...)
EncodeRecord ==
    /\ pc = "encode"
    /\ calls' = Append(calls, <<"encode", srn>>)
    /\ IF EncodeFails(srn)
       THEN /\ exc' = "DataOverflowError"
            /\ pc' = OnLoopError
            /\ UNCHANGED img
       ELSE /\ img' = QrEncode(srn)
            /\ pc' = StepAfter("encode")
            /\ UNCHANGED exc
    /\ UNCHANGED <<run, file, dirState, disk, start, snap, out, df, idx, srn>>

\* img.save(filepath)
SaveImage ==
    /\ pc = "save"
    /\ calls' = Append(calls, <<"save", FileName(srn)>>)
    /\ IF SaveFails(FileName(srn))
       THEN /\ exc' = "FileNotFoundError"
            /\ pc' = OnLoopError
            /\ UNCHANGED disk
       ELSE /\ disk' = SaveFile(disk, FileName(srn), img)
            /\ pc' = StepAfter("save")
            /\ UNCHANGED exc
    /\ UNCHANGED <<run, file, dirState, start, snap, out, df, idx, srn, img>>

\* print(f"Generated QR code for {name} (SRN: {srn}, Status: {status}) -> {filepath}")
PrintProgress ==
    /\ pc = "print"
    /\ out' = Append(out, ProgressLine(NameOf(df.rows[idx]), srn,
                                       StatusOf(df.columns, df.rows[idx]),
                                       FilePath(FileName(srn))))
    /\ pc' = StepAfter("print")
    /\ UNCHANGED <<run, file, dirState, disk, start, snap, df, idx, srn, img, exc, calls>>

\* The loop is exhausted: the completion banner, and the function returns.
Finish ==
    /\ pc = "loop"
    /\ idx >= Len(df.rows)
    /\ out' = Append(out, BannerLine)
    /\ pc' = "returned"
    /\ UNCHANGED <<run, file, dirState, disk, start, df, idx, srn, img, exc, calls>>
    /\ EndCall

\* The except clauses, tried in order; each prints one line, and the function
\* returns.
Handle ==
    /\ pc = "except"
    /\ \/ /\ exc = "FileNotFoundError"
          /\ out' = Append(out, NotFoundLine)
       \/ /\ exc = "EmptyDataError"
          /\ out' = Append(out, EmptyLine)
       \/ /\ exc \notin {"FileNotFoundError", "EmptyDataError"}
          /\ out' = Append(out, MessageLine(exc))
    /\ pc' = "returned"
    /\ UNCHANGED <<run, file, dirState, disk, start, df, idx, srn, img, exc, calls>>
    /\ EndCall

Next ==
    \/ Call
    \/ Mkdir
    \/ ReadCsv
    \/ CheckColumns
    \/ NextRecord
    \/ EncodeRecord
    \/ SaveImage
    \/ PrintProgress
    \/ Finish
    \/ Handle

Spec == Init /\ [][Next]_vars

\* --------------------------------------------------------------- claims

Terminal == pc \in {"returned", "escaped"}

\* The call ran to its last statement.
Completed == pc = "returned" /\ exc = "none"

\* The input is a header with 'Name' and 'SRN', followed by data rows.
RequiredHeader == file.kind = "csv" /\ {"Name", "SRN"} \subseteq file.header

\* qr_codes was absent or a directory when the call started.
DirUsable == start.state \in {"absent", "dir"}

Names(d) == { e.name : e \in d }

LinesOf(k) == { i \in 1..Len(out) : out[i].kind = k }

CallsOf(k) == { i \in 1..Len(calls) : calls[i][1] = k }

\* The raw text of row i's SRN field, and that text trimmed.
RawSrn(i) == file.rows[i]["SRN"]
TrimmedSrn(i) == Strip(RawSrn(i))

\* The identifier the program derives for row i: str(value).strip().
Identifier(i) == Strip(df.rows[i]["SRN"])

Identifiers == { Identifier(i) : i \in 1..Len(df.rows) }

\* The SRN column is read as text: some field is neither empty nor digits.
SrnIsText ==
    \E i \in 1..Len(file.rows) :
        RawSrn(i) # <<>> /\ \E k \in 1..Len(RawSrn(i)) : RawSrn(i)[k] \notin Digits

C3_SchemaErrorBeforeLoop ==
    ( /\ file.kind = "csv"
      /\ ~({"Name", "SRN"} \subseteq file.header)
      /\ DirUsable )
    => /\ pc \notin {"loop", "encode", "save", "print", "escaped"}
       /\ disk = start.files
       /\ CallsOf("encode") = {} /\ CallsOf("save") = {}
       /\ LinesOf("progress") = {} /\ LinesOf("count") = {}
       /\ pc = "returned" => out = <<MessageLine("ValueError")>>

\* A run on a file with three rows whose header lacks 'SRN' has returned.
C3_Witness ==
    /\ pc = "returned"
    /\ file.kind = "csv"
    /\ "SRN" \notin file.header
    /\ "Name" \in file.header
    /\ Len(file.rows) = 3
    /\ DirUsable

\* C4: when csv_file_path names nothing (and qr_codes can be used as a
\* directory), the call ends by returning after the 'not found' line alone,
\* with nothing written, and qr_codes is a directory: mkdir was called before
\* read_csv.
C4_NotFoundAfterMkdir ==
    ( file.kind = "missing" /\ DirUsable /\ Terminal )
    => /\ pc = "returned"
       /\ out = <<NotFoundLine>>
       /\ disk = start.files
       /\ CallsOf("save") = {}
       /\ dirState = "dir"
       /\ calls = << <<"mkdir">>, <<"read_csv">> >>

\* A run on a missing file has returned, started with qr_codes absent.
C4_Witness ==
    /\ pc = "returned"
    /\ file.kind = "missing"
    /\ start.state = "absent"
    /\ dirState = "dir"

\* C5: when the second of two calls in succession on the same input has
\* ended, qr_codes holds the files it held when the first call ended: the
\* same names, each with the same content.
C5_Idempotent ==
    ( run = 2 /\ Terminal )
    => /\ disk = snap
       /\ Names(disk) = Names(snap)

\* A second call has completed, having written again the two files the first
\* call left.
C5_Witness ==
    /\ run = 2
    /\ Completed
    /\ CallsOf("save") # {}
    /\ Cardinality(disk) = 2
    /\ disk = snap

\* The rows the loop is through with: their progress line is printed.
Processed == Cardinality(LinesOf("progress"))

\* C6: once two rows with the same identifier have both been processed,
\* qr_codes holds exactly one file named for that identifier, its content the
\* encoding of the identifier, a progress line was printed for each of the
\* two rows, and no exception was raised on the way.
C6_DuplicateOverwrites ==
    \A i, j \in 1..Len(df.rows) :
        ( i < j /\ j <= Processed /\ Identifier(i) = Identifier(j) )
        => /\ Cardinality({ e \in disk : e.name = Identifier(j) \o Ext }) = 1
           /\ \A e \in disk :
                e.name = Identifier(j) \o Ext => e.content = QrEncode(Identifier(j))
           /\ out[1 + i].kind = "progress" /\ out[1 + i].arg[2] = Identifier(i)
           /\ out[1 + j].kind = "progress" /\ out[1 + j].arg[2] = Identifier(j)
           /\ Cardinality(CallsOf("save")) >= j
           /\ (idx = j /\ pc = "loop") => exc = "none"

\* A completed run over an older file of the name, on rows whose identifiers
\* coincide once trimmed: one file, two progress lines.
C6_Witness ==
    /\ Completed
    /\ Len(df.rows) = 2
    /\ RawSrn(1) # RawSrn(2)
    /\ Identifier(1) = Identifier(2)
    /\ start.files # {}
    /\ Cardinality(disk) = 1
    /\ Cardinality(LinesOf("progress")) = 2

\* The library calls of kind k, in the order they were made.
CallSeq(k) == SelectSeq(calls, LAMBDA c : c[1] = k)

\* Whether row i's identifier makes qr.make or img.save raise.
RowFails(i) ==
    \/ Len(Identifier(i)) > MaxPayload
    \/ \E k \in 1..Len(Identifier(i)) : Identifier(i)[k] = "/"

\* C7: rows are encoded and saved in input order, each at most once; and
\* when qr.make or img.save raises at row k, the call returns with rows
\* 1..k encoded and no other, rows 1..k-1 (and no later row) saved and their
\* files on disk, k-1 progress lines, one error line last and no banner; k is
\* the first row whose identifier cannot be encoded or saved.
C7_FirstFailureAborts ==
    /\ \A n \in 1..Len(CallSeq("encode")) :
         CallSeq("encode")[n] = <<"encode", Identifier(n)>>
    /\ \A n \in 1..Len(CallSeq("save")) :
         CallSeq("save")[n] = <<"save", Identifier(n) \o Ext>>
    /\ Len(CallSeq("save")) <= Len(CallSeq("encode"))
    /\ Len(CallSeq("encode")) <= idx
    /\ ( pc = "returned" /\ idx >= 1 /\ exc # "none" )
       => /\ RowFails(idx)
          /\ \A i \in 1..(idx - 1) : ~RowFails(i)
          /\ Len(CallSeq("encode")) = idx
          /\ Len(CallSeq("save")) \in {idx - 1, idx}
          /\ \A i \in 1..(idx - 1) :
               [name |-> Identifier(i) \o Ext, content |-> QrEncode(Identifier(i))] \in disk
          /\ Identifier(idx) \o Ext \notin Names(disk) \ Names(start.files)
          /\ Cardinality(LinesOf("progress")) = idx - 1
          /\ LinesOf("banner") = {}
          /\ LinesOf("error") = {Len(out)}
          /\ Len(out) = idx + 1

\* The call has returned after the second of three rows failed: the first
\* row's file is on disk, the third row was never encoded.
C7_Witness ==
    /\ pc = "returned"
    /\ exc # "none"
    /\ Len(df.rows) = 3
    /\ idx = 2
    /\ ~RowFails(3)
    /\ Cardinality(disk) = 1
    /\ Len(CallSeq("encode")) = 2

\* C8 as stated: every call ends by returning, and a call in which a step
\* failed has printed exactly one error line.
C8_NoFailureEscapes ==
    Terminal
    => /\ pc = "returned"
       /\ exc # "none" => Cardinality(LinesOf("error")) = 1

\* The output of a successful call: the count, one progress line per row in
\* input order, the banner.
SuccessShape ==
    /\ Len(out) = Len(df.rows) + 2
    /\ out[1] = CountLine(Len(df.rows))
    /\ \A i \in 1..Len(df.rows) :
         out[1 + i].kind = "progress" /\ out[1 + i].arg[2] = Identifier(i)
    /\ out[Len(out)] = BannerLine
    /\ LinesOf("error") = {}

\* The output of a failed call: what was printed before, then one error line.
FailureShape ==
    /\ Len(out) >= 1
    /\ LinesOf("error") = {Len(out)}
    /\ LinesOf("banner") = {}
    /\ LinesOf("count") \subseteq {1}
    /\ \A i \in LinesOf("progress") : 1 \in LinesOf("count") /\ i > 1

\* C9 as stated: the output of every call that has ended has the shape of a
\* success or the shape of a failure, the latter when a step failed.
C9_OutputShapes ==
    Terminal
    => IF exc = "none" THEN SuccessShape ELSE FailureShape

\* The rows whose image img.save has written in this call: the calls of
\* img.save that did not raise.
Saved ==
    Cardinality({ i \in CallsOf("save") :
                    \A k \in 1..Len(calls[i][2]) : calls[i][2][k] # "/" })

\* C10: at every point of a call, each progress line printed so far names a
\* row whose file qr_codes/<identifier>.png is on disk with the identifier's
\* encoding; there are never more progress lines than images written; and
\* the files written so far are those of the rows processed so far.
C10_ProgressFollowsWrite ==
    /\ \A i \in LinesOf("progress") :
         /\ out[i].arg[2] = Identifier(i - 1)
         /\ out[i].arg[4] = <<"qr_codes", Identifier(i - 1) \o Ext>>
         /\ [name |-> Identifier(i - 1) \o Ext,
             content |-> QrEncode(Identifier(i - 1))] \in disk
    /\ Cardinality(LinesOf("progress")) <= Saved
    /\ Saved <= Len(df.rows)
    /\ Names(disk) = Names(start.files) \cup { Identifier(i) \o Ext : i \in 1..Saved }

\* The second row's image is on disk and its progress line not yet printed.
C10_Witness ==
    /\ pc = "print"
    /\ idx = 2
    /\ Cardinality(LinesOf("progress")) = 1
    /\ Cardinality(disk) = 2

====
